---- MODULE Spec2Model ----
(***************************************************************************)
(* The analog buffer of the mixed-mode simulator                            *)
(* (src/mixed_mode_simulator/sample_and_hold.py) run by a discrete-event    *)
(* engine with a virtual clock, driven as src/tests/test_analog_buffer.py   *)
(* drives it.  Durations are whole ticks of virtual time.                   *)
(*                                                                         *)
(* Every generator of the source is a process of the engine.  A process     *)
(* runs from one yield to the next in one step of the engine; what it       *)
(* yields (a timeout, or a process it spawned) is an event in the engine's  *)
(* queue, and popping that event resumes the process that waits on it.      *)
(***************************************************************************)
EXTENDS Integers, Sequences, FiniteSets, TLC

\* ---- bounds ----
MaxCells == 2      \* buffer_length is drawn from 0..MaxCells
MaxDelay == 1      \* sample_length, chain_delay, the driver's spacing and the
                   \* routing time are drawn from 0..MaxDelay
NumEvents == 2     \* test_events[1..NumEvents]
MaxPeriod == 2     \* the square wave's period is drawn from 1..MaxPeriod
MaxDuration == 3   \* its duration from 0..MaxDuration

Stages == {"ring"}                \* the stages the driver feeds
AllStages == Stages \cup {"tail"} \* with the stage a routing stage chains into
Events == 1..NumEvents
Muxes == {"amux1"}
Chain == "chain"                  \* the routing stage that chains ring into tail
None == "None"
Trav == AllStages \X Events         \* one buffer_in call: <<stage, event>>
NoTrav == <<"-", 0>>

VARIABLES
  \* AnalogBuffer fields, per stage
  amux, buffer_index, sample_length, buffer_length, chain_delay,
  downstream_events_processed,
  \* the argument of the latest set_amux call on each stage (None before any)
  lastSet,
  \* the routing stage: the virtual time its entry_point takes
  route_time,
  \* the engine
  now, queue, crashed, phase,
  \* the Event Records of the driver, by event
  test_events,
  \* the driver (test_analog_buffer.py)
  helperPc, num_events, spacing, helperI, spawned,
  \* the processes of one buffer_in call
  pcBuf, idx, pcUnit, pcRem, muxArg, pcEntry,
  \* what the run showed (the debug trace of the source, kept per call)
  startAt, cellAt, handoffAt, routedAt, endAt, dropped, calls,
  \* the square wave driver (pingpong.py): its parameters, the generator's
  \* position, loop variable and edge, the triggers it spawned and the time
  \* each trigger's completion signal was completed (-1 while it is not)
  period, duration, delta, genPc, wave_i, edge, triggers, completedAt

stageVars == <<amux, lastSet, buffer_index, sample_length, buffer_length,
               chain_delay, downstream_events_processed, route_time>>
paramVars == <<buffer_index, sample_length, buffer_length, chain_delay,
               route_time>>
engineVars == <<now, queue, crashed, phase>>
driverVars == <<helperPc, num_events, spacing, helperI, spawned>>
procVars == <<pcBuf, idx, pcUnit, pcRem, muxArg, pcEntry>>
traceVars == <<startAt, cellAt, handoffAt, routedAt, endAt, dropped, calls>>
waveVars == <<period, duration, delta, genPc, wave_i, edge, triggers, completedAt>>
vars == <<stageVars, test_events, engineVars, driverVars, procVars, traceVars,
          waveVars>>

\* ---- the scheduling engine ----

\* An event of the queue: Initialize of a process (urgent), a Timeout, or the
\* end of a process (both normal). x names the buffer_in call the process
\* belongs to (NoTrav for the driver).
Item(t, kind, proc, x, ok) ==
  [t |-> t, prio |-> IF kind = "init" THEN 0 ELSE 1, kind |-> kind,
   proc |-> proc, x |-> x, ok |-> ok]

Before(a, b) == a.t < b.t \/ (a.t = b.t /\ a.prio <= b.prio)

\* env.schedule: the queue is ordered by time, then priority, then insertion.
Schedule(q, it) ==
  LET k == Cardinality({j \in 1..Len(q) : Before(q[j], it)})
  IN  SubSeq(q, 1, k) \o <<it>> \o SubSeq(q, k + 1, Len(q))

\* env.process(generator): the new process starts at the current time.
Process(q, t, proc, x) == Schedule(q, Item(t, "init", proc, x, TRUE))

\* env.timeout(delay)
Timeout(q, t, delay, proc, x) == Schedule(q, Item(t + delay, "timeout", proc, x, TRUE))

\* A generator returned (ok) or raised (not ok): its process event is scheduled.
Finish(q, t, proc, x, ok) == Schedule(q, Item(t, "end", proc, x, ok))

Running == phase = "run" /\ ~crashed /\ queue # <<>>
Head1 == Head(queue)

\* env.step pops the next event; the clock moves to its time.
Pops(kind, proc, x) ==
  /\ Running
  /\ Head1.kind = kind /\ Head1.proc = proc /\ Head1.x = x

\* DownstreamEvent(simpy.Event(env), {"event_number": 1, ...}, {"sample_index": i}):
\* the record of test_events[i], its completion signal not triggered.
DownstreamEvent(i) ==
  [event |-> "pending",
   detection_event_info |-> [event_number |-> 1, scintillator |-> 1, event_length |-> 1],
   event_info |-> [sample_index |-> i]]

\* Nothing scheduled, nothing started; the records as setUp builds them.
InitRun ==
  /\ buffer_index = [s \in AllStages |-> 0]
  /\ downstream_events_processed = [s \in AllStages |-> 0]
  /\ test_events = [e \in Events |-> DownstreamEvent(e - 1)]
  /\ now = 0 /\ queue = <<>> /\ crashed = FALSE /\ phase = "setup"
  /\ helperPc = "none" /\ num_events = 0 /\ spacing = 1 /\ helperI = 0
  /\ spawned = 0
  /\ pcBuf = [x \in Trav |-> "none"]
  /\ idx = [x \in Trav |-> 0]
  /\ pcUnit = [x \in Trav |-> "none"]
  /\ pcRem = [x \in Trav |-> "none"]
  /\ muxArg = [x \in Trav |-> None]
  /\ pcEntry = [x \in Trav |-> "none"]
  /\ startAt = [x \in Trav |-> -1]
  /\ cellAt = [x \in Trav |-> <<>>]
  /\ handoffAt = [x \in Trav |-> -1]
  /\ routedAt = [x \in Trav |-> -1]
  /\ endAt = [x \in Trav |-> -1]
  /\ dropped = {}
  /\ calls = <<>>

\* The square wave driver is not started.
WaveIdle ==
  /\ period = 1 /\ duration = 0 /\ delta = 0
  /\ genPc = "none" /\ wave_i = 0 /\ edge = "Rising"
  /\ triggers = <<>> /\ completedAt = <<>>

\* One stage as setUp builds it, for any dimensions; no mux is set. The stage
\* the driver does not feed has no cells.
Init ==
  /\ amux = [s \in AllStages |-> None]
  /\ lastSet = [s \in AllStages |-> None]
  /\ sample_length \in [AllStages -> 0..MaxDelay]
  /\ buffer_length \in [AllStages -> 0..MaxCells]
  /\ chain_delay \in [AllStages -> 0..MaxDelay]
  /\ \A s \in AllStages \ Stages :
       sample_length[s] = 0 /\ buffer_length[s] = 0 /\ chain_delay[s] = 0
  /\ route_time \in [Muxes -> 0..MaxDelay]
  /\ InitRun
  /\ WaveIdle

\* The two-stage pipeline, assembled: ring's routing stage chains into tail,
\* tail has no downstream; both stages of any dimensions.
PipeInit ==
  /\ amux = [s \in AllStages |-> IF s \in Stages THEN Chain ELSE None]
  /\ lastSet = [s \in AllStages |-> IF s \in Stages THEN Chain ELSE None]
  /\ sample_length \in [AllStages -> 0..MaxDelay]
  /\ buffer_length \in [AllStages -> 0..MaxCells]
  /\ chain_delay \in [AllStages -> 0..MaxDelay]
  /\ route_time = [m \in Muxes |-> 0]
  /\ InitRun
  /\ WaveIdle


\* ---- topology assembly and the driver ----

\* Faulty variant of set_amux: the reference is assigned only while it is unset.
set_amux_Once(s, m) ==
  /\ ~crashed
  /\ amux' = IF amux[s] = None THEN [amux EXCEPT ![s] = m] ELSE amux
  /\ lastSet' = [lastSet EXCEPT ![s] = m]
  /\ UNCHANGED <<paramVars, test_events, waveVars, downstream_events_processed, now, queue, crashed,
                 phase, driverVars, procVars, traceVars>>

\* AnalogBuffer.set_amux: an unconditional assignment, at any moment between
\* two steps of the engine.
set_amux(s, m) ==
  /\ ~crashed
  /\ amux' = [amux EXCEPT ![s] = m]
  /\ lastSet' = [lastSet EXCEPT ![s] = m]
  /\ UNCHANGED <<paramVars, test_events, waveVars, downstream_events_processed, now, queue, crashed,
                 phase, driverVars, procVars, traceVars>>

\* test_single_event: env.process(buffer_in(event)) before env.run(), here
\* for any number of events.
test_single_event(s) ==
  /\ phase = "setup" /\ helperPc = "none" /\ spawned < NumEvents
  /\ LET x == <<s, spawned + 1>> IN
       /\ pcBuf' = [pcBuf EXCEPT ![x] = "init"]
       /\ startAt' = [startAt EXCEPT ![x] = now]
       /\ queue' = Process(queue, now, "buffer_in", x)
  /\ spawned' = spawned + 1
  /\ UNCHANGED <<stageVars, test_events, waveVars, now, crashed, phase, helperPc, num_events,
                 spacing, helperI, idx, pcUnit, pcRem, muxArg, pcEntry,
                 cellAt, handoffAt, routedAt, endAt, dropped, calls>>

\* test_multiple_events: env.process(multiple_event_helper(n)) before env.run().
\* The helper of the test waits 1 after each spawn; the wait is a parameter
\* here, gap.
test_multiple_events(n, gap) ==
  /\ phase = "setup" /\ helperPc = "none" /\ spawned = 0
  /\ helperPc' = "init" /\ num_events' = n /\ spacing' = gap
  /\ queue' = Process(queue, now, "helper", NoTrav)
  /\ UNCHANGED <<stageVars, test_events, waveVars, now, crashed, phase, helperI, spawned,
                 procVars, traceVars>>

\* env.run()
run ==
  /\ phase = "setup" /\ phase' = "run"
  /\ UNCHANGED <<stageVars, test_events, waveVars, now, queue, crashed, driverVars, procVars,
                 traceVars>>

\* multiple_event_helper, one turn of its loop: spawn buffer_in for the next
\* event, then wait; after the last turn the generator returns.
multiple_event_helper(s) ==
  /\ \/ Pops("init", "helper", NoTrav)
     \/ Pops("timeout", "helper", NoTrav)
  /\ now' = Head1.t
  /\ IF helperI < num_events
       THEN LET x == <<s, helperI + 1>> IN
            /\ pcBuf' = [pcBuf EXCEPT ![x] = "init"]
            /\ startAt' = [startAt EXCEPT ![x] = Head1.t]
            /\ queue' = Timeout(Process(Tail(queue), Head1.t, "buffer_in", x),
                                Head1.t, spacing, "helper", NoTrav)
            /\ helperPc' = "timeout"
            /\ helperI' = helperI + 1
            /\ spawned' = spawned + 1
       ELSE /\ helperPc' = "done"
            /\ queue' = Finish(Tail(queue), Head1.t, "helper", NoTrav, TRUE)
            /\ UNCHANGED <<pcBuf, startAt, helperI, spawned>>
  /\ UNCHANGED <<stageVars, test_events, waveVars, crashed, phase, num_events, spacing, idx, pcUnit,
                 pcRem, muxArg, pcEntry, cellAt, handoffAt, routedAt, endAt, dropped, calls>>

\* The end of a process nobody waits on (the driver, a buffer_in): no callback
\* runs. A failure nobody has taken stops env.run() with that exception.
process_end(proc, x) ==
  /\ Pops("end", proc, x)
  /\ now' = Head1.t
  /\ queue' = Tail(queue)
  /\ crashed' = ~Head1.ok
  /\ UNCHANGED <<stageVars, test_events, waveVars, phase, driverVars, procVars, traceVars>>


\* ---- AnalogBuffer ----

\* Faulty variants of UnitDelay: the timeout is forgotten; the cell is held
\* for the other events in it as well (one cell, one sample at a time).
UnitDelay_None(s) == 0
UnitDelay_Shared(s) ==
  sample_length[s] * (1 + Cardinality({x \in Trav : x[1] = s /\ pcUnit[x] = "timeout"}))

\* sample_and_hold_unit: yield self.env.timeout(self.sample_length)
UnitDelay(s) == sample_length[s]

\* Faulty variants of ChainDelay: no chain delay after the last cell; no
\* chain delay while the stage has no mux.
ChainDelay_Between(s, i) == IF i + 1 < buffer_length[s] THEN chain_delay[s] ELSE 0
ChainDelay_Muxed(s, i) == IF amux[s] = None THEN 0 ELSE chain_delay[s]

\* buffer_in: yield self.env.timeout(self.chain_delay), after cell i
ChainDelay(s, i) == chain_delay[s]

\* Faulty variants of Count: the counter is set, not incremented; it is not
\* touched.
Count_Set(n) == 1
Count_Skip(n) == n

\* remove_from_buffer: self.downstream_events_processed += 1
Count(n) == n + 1

\* Faulty variant of EntryCall: the call is tagged with the cell count.
EntryCall_Cells(s, e, mux) == [mux |-> mux, index |-> buffer_length[s], event |-> e]

\* remove_from_buffer: mux.entry_point(self.buffer_index, event)
EntryCall(s, e, mux) == [mux |-> mux, index |-> buffer_index[s], event |-> e]

\* Faulty variant of MuxNow: the reference is looked up at the first handoff
\* of the stage and that value is kept for the later ones.
MuxNow_Cached(s) ==
  LET handed == {y \in Trav : y[1] = s /\ handoffAt[y] # -1}
  IN  IF handed = {} THEN amux[s] ELSE muxArg[CHOOSE y \in handed : TRUE]

\* buffer_in: the mux handed to remove_from_buffer is self.amux, read when the
\* traversal has completed.
MuxNow(s) == amux[s]

\* Faulty variant of Caught: no try block, the failure ends buffer_in as a
\* failure.
Caught_Reraised(ok) == ok

\* buffer_in: try ... except Exception. A failure of remove_from_buffer is
\* raised at the yield inside the try block and taken by the except clause:
\* the generator returns normally whatever the outcome was.
Caught(ok) == TRUE

\* buffer_in, top of `for i in range(self.buffer_length)` with i the loop
\* variable: spawn the next cell and wait for it, or leave the loop, spawn
\* remove_from_buffer(event, self.amux) and wait for it.
ForLoop(x, i, t, q) ==
  /\ idx' = [idx EXCEPT ![x] = i]
  /\ IF i < buffer_length[x[1]]
       THEN /\ pcBuf' = [pcBuf EXCEPT ![x] = "unit"]
            /\ pcUnit' = [pcUnit EXCEPT ![x] = "init"]
            /\ queue' = Process(q, t, "sample_and_hold_unit", x)
            /\ UNCHANGED <<pcRem, muxArg, handoffAt>>
       ELSE /\ pcBuf' = [pcBuf EXCEPT ![x] = "remove"]
            /\ pcRem' = [pcRem EXCEPT ![x] = "init"]
            /\ muxArg' = [muxArg EXCEPT ![x] = MuxNow(x[1])]
            /\ handoffAt' = [handoffAt EXCEPT ![x] = t]
            /\ queue' = Process(q, t, "remove_from_buffer", x)
            /\ UNCHANGED pcUnit

\* buffer_in starts.
buffer_in(x) ==
  /\ Pops("init", "buffer_in", x)
  /\ now' = Head1.t
  /\ ForLoop(x, 0, Head1.t, Tail(queue))
  /\ UNCHANGED <<stageVars, test_events, waveVars, crashed, phase, driverVars, pcEntry,
                 startAt, cellAt, routedAt, endAt, dropped, calls>>

\* buffer_in resumes when its cell has finished and waits the chain delay.
buffer_in_cell_done(x) ==
  /\ Pops("end", "sample_and_hold_unit", x)
  /\ now' = Head1.t
  /\ pcBuf' = [pcBuf EXCEPT ![x] = "chain"]
  /\ queue' = Timeout(Tail(queue), Head1.t, ChainDelay(x[1], idx[x]), "buffer_in", x)
  /\ UNCHANGED <<stageVars, test_events, waveVars, crashed, phase, driverVars, idx, pcUnit,
                 pcRem, muxArg, pcEntry, traceVars>>

\* buffer_in resumes after the chain delay: next turn of the loop.
buffer_in_chained(x) ==
  /\ Pops("timeout", "buffer_in", x)
  /\ now' = Head1.t
  /\ ForLoop(x, idx[x] + 1, Head1.t, Tail(queue))
  /\ UNCHANGED <<stageVars, test_events, waveVars, crashed, phase, driverVars, pcEntry,
                 startAt, cellAt, routedAt, endAt, dropped, calls>>

\* buffer_in resumes when remove_from_buffer has ended, and ends itself.
buffer_in_removed(x) ==
  /\ Pops("end", "remove_from_buffer", x)
  /\ now' = Head1.t
  /\ LET ok == Head1.ok \/ Caught(Head1.ok) IN
       /\ pcBuf' = [pcBuf EXCEPT ![x] = IF ok THEN "done" ELSE "failed"]
       /\ queue' = Finish(Tail(queue), Head1.t, "buffer_in", x, ok)
  /\ endAt' = [endAt EXCEPT ![x] = Head1.t]
  /\ UNCHANGED <<stageVars, test_events, waveVars, crashed, phase, driverVars, idx, pcUnit,
                 pcRem, muxArg, pcEntry, startAt, cellAt, handoffAt, routedAt,
                 dropped, calls>>

\* sample_and_hold_unit starts: the cell holds the sample for sample_length.
sample_and_hold_unit(x) ==
  /\ Pops("init", "sample_and_hold_unit", x)
  /\ now' = Head1.t
  /\ pcUnit' = [pcUnit EXCEPT ![x] = "timeout"]
  /\ cellAt' = [cellAt EXCEPT ![x] = Append(@, Head1.t)]
  /\ queue' = Timeout(Tail(queue), Head1.t, UnitDelay(x[1]), "sample_and_hold_unit", x)
  /\ UNCHANGED <<stageVars, test_events, waveVars, crashed, phase, driverVars, pcBuf, idx,
                 pcRem, muxArg, pcEntry, startAt, handoffAt, routedAt, endAt,
                 dropped, calls>>

\* sample_and_hold_unit resumes after its timeout and returns.
sample_and_hold_unit_done(x) ==
  /\ Pops("timeout", "sample_and_hold_unit", x)
  /\ now' = Head1.t
  /\ pcUnit' = [pcUnit EXCEPT ![x] = "none"]
  /\ queue' = Finish(Tail(queue), Head1.t, "sample_and_hold_unit", x, TRUE)
  /\ UNCHANGED <<stageVars, test_events, waveVars, crashed, phase, driverVars, pcBuf, idx,
                 pcRem, muxArg, pcEntry, traceVars>>

\* Faulty variant of remove_from_buffer: the counter is one for all stages
\* (an attribute of the class, not of the instance).
remove_from_buffer_Global(x) ==
  /\ Pops("init", "remove_from_buffer", x)
  /\ now' = Head1.t
  /\ IF muxArg[x] = None
       THEN /\ downstream_events_processed' =
                 [s \in AllStages |-> Count(downstream_events_processed[x[1]])]
            /\ dropped' = dropped \cup {x}
            /\ pcRem' = [pcRem EXCEPT ![x] = "done"]
            /\ queue' = Finish(Tail(queue), Head1.t, "remove_from_buffer", x, TRUE)
            /\ UNCHANGED <<pcEntry, calls>>
       ELSE /\ calls' = Append(calls, [from |-> x] @@ EntryCall(x[1], x[2], muxArg[x]))
            /\ pcRem' = [pcRem EXCEPT ![x] = "entry"]
            /\ pcEntry' = [pcEntry EXCEPT ![x] = "init"]
            /\ queue' = Process(Tail(queue), Head1.t, "entry_point", x)
            /\ UNCHANGED <<downstream_events_processed, dropped>>
  /\ UNCHANGED <<amux, lastSet, paramVars, test_events, waveVars, crashed, phase, driverVars, pcBuf, idx,
                 pcUnit, muxArg, startAt, cellAt, handoffAt, routedAt, endAt>>

\* Faulty variant of remove_from_buffer: without a mux the event's own
\* completion signal is failed (event.event.fail) as well.
remove_from_buffer_Fails(x) ==
  /\ Pops("init", "remove_from_buffer", x)
  /\ now' = Head1.t
  /\ IF muxArg[x] = None
       THEN /\ test_events' = [test_events EXCEPT ![x[2]].event = "failed"]
            /\ downstream_events_processed' =
                 [downstream_events_processed EXCEPT ![x[1]] = Count(@)]
            /\ dropped' = dropped \cup {x}
            /\ pcRem' = [pcRem EXCEPT ![x] = "done"]
            /\ queue' = Finish(Tail(queue), Head1.t, "remove_from_buffer", x, TRUE)
            /\ UNCHANGED <<pcEntry, calls>>
       ELSE /\ calls' = Append(calls, [from |-> x] @@ EntryCall(x[1], x[2], muxArg[x]))
            /\ pcRem' = [pcRem EXCEPT ![x] = "entry"]
            /\ pcEntry' = [pcEntry EXCEPT ![x] = "init"]
            /\ queue' = Process(Tail(queue), Head1.t, "entry_point", x)
            /\ UNCHANGED <<downstream_events_processed, dropped, test_events>>
  /\ UNCHANGED <<amux, lastSet, paramVars, waveVars, crashed, phase, driverVars, pcBuf, idx,
                 pcUnit, muxArg, startAt, cellAt, handoffAt, routedAt, endAt>>

\* Faulty variant of remove_from_buffer: entry_point is spawned and not
\* waited for (env.process without the yield).
remove_from_buffer_NoWait(x) ==
  /\ Pops("init", "remove_from_buffer", x)
  /\ now' = Head1.t
  /\ IF muxArg[x] = None
       THEN /\ downstream_events_processed' =
                 [downstream_events_processed EXCEPT ![x[1]] = Count(@)]
            /\ dropped' = dropped \cup {x}
            /\ UNCHANGED <<pcEntry, calls>>
       ELSE /\ calls' = Append(calls, [from |-> x] @@ EntryCall(x[1], x[2], muxArg[x]))
            /\ pcEntry' = [pcEntry EXCEPT ![x] = "init"]
            /\ UNCHANGED <<downstream_events_processed, dropped>>
  /\ pcRem' = [pcRem EXCEPT ![x] = "done"]
  /\ queue' = Finish(IF muxArg[x] = None THEN Tail(queue)
                     ELSE Process(Tail(queue), Head1.t, "entry_point", x),
                     Head1.t, "remove_from_buffer", x, TRUE)
  /\ UNCHANGED <<amux, lastSet, paramVars, test_events, waveVars, crashed, phase, driverVars, pcBuf, idx,
                 pcUnit, muxArg, startAt, cellAt, handoffAt, routedAt, endAt>>

\* remove_from_buffer starts: without a mux the event is counted and the
\* generator returns; with one, entry_point is spawned and waited for.
remove_from_buffer(x) ==
  /\ Pops("init", "remove_from_buffer", x)
  /\ now' = Head1.t
  /\ IF muxArg[x] = None
       THEN /\ downstream_events_processed' =
                 [downstream_events_processed EXCEPT ![x[1]] = Count(@)]
            /\ dropped' = dropped \cup {x}
            /\ pcRem' = [pcRem EXCEPT ![x] = "done"]
            /\ queue' = Finish(Tail(queue), Head1.t, "remove_from_buffer", x, TRUE)
            /\ UNCHANGED <<pcEntry, calls>>
       ELSE /\ calls' = Append(calls, [from |-> x] @@ EntryCall(x[1], x[2], muxArg[x]))
            /\ pcRem' = [pcRem EXCEPT ![x] = "entry"]
            /\ pcEntry' = [pcEntry EXCEPT ![x] = "init"]
            /\ queue' = Process(Tail(queue), Head1.t, "entry_point", x)
            /\ UNCHANGED <<downstream_events_processed, dropped>>
  /\ UNCHANGED <<amux, lastSet, paramVars, test_events, waveVars, crashed, phase, driverVars, pcBuf, idx,
                 pcUnit, muxArg, startAt, cellAt, handoffAt, routedAt, endAt>>

\* remove_from_buffer resumes when entry_point has ended: it returns, or the
\* failure is raised at its yield and ends it as a failure.
remove_from_buffer_routed(x) ==
  /\ Pops("end", "entry_point", x)
  /\ now' = Head1.t
  /\ pcRem' = [pcRem EXCEPT ![x] = IF Head1.ok THEN "done" ELSE "failed"]
  /\ queue' = Finish(Tail(queue), Head1.t, "remove_from_buffer", x, Head1.ok)
  /\ UNCHANGED <<stageVars, test_events, waveVars, crashed, phase, driverVars, pcBuf, idx,
                 pcUnit, muxArg, pcEntry, traceVars>>

\* ---- the routing stage (AMUX.entry_point, outside this source) ----

\* entry_point starts and takes the mux's routing time.
entry_point(x) ==
  /\ Pops("init", "entry_point", x)
  /\ now' = Head1.t
  /\ pcEntry' = [pcEntry EXCEPT ![x] = "timeout"]
  /\ queue' = Timeout(Tail(queue), Head1.t, route_time[muxArg[x]], "entry_point", x)
  /\ UNCHANGED <<stageVars, test_events, waveVars, crashed, phase, driverVars, pcBuf, idx,
                 pcUnit, pcRem, muxArg, traceVars>>

\* entry_point completes (accepts the event) or fails (rejects it).
entry_point_done(x, ok) ==
  /\ Pops("timeout", "entry_point", x)
  /\ now' = Head1.t
  /\ pcEntry' = [pcEntry EXCEPT ![x] = IF ok THEN "done" ELSE "failed"]
  /\ routedAt' = [routedAt EXCEPT ![x] = Head1.t]
  /\ queue' = Finish(Tail(queue), Head1.t, "entry_point", x, ok)
  /\ UNCHANGED <<stageVars, test_events, waveVars, crashed, phase, driverVars, pcBuf, idx,
                 pcUnit, pcRem, muxArg, startAt, cellAt, handoffAt, endAt,
                 dropped, calls>>

\* ---- the run ----

Step ==
  \/ \E s \in Stages : multiple_event_helper(s)
  \/ process_end("helper", NoTrav)
  \/ \E x \in Trav :
       \/ process_end("buffer_in", x)
       \/ buffer_in(x)
       \/ buffer_in_cell_done(x)
       \/ buffer_in_chained(x)
       \/ buffer_in_removed(x)
       \/ sample_and_hold_unit(x)
       \/ sample_and_hold_unit_done(x)
       \/ remove_from_buffer(x)
       \/ remove_from_buffer_routed(x)
       \/ entry_point(x)
       \/ \E ok \in BOOLEAN : entry_point_done(x, ok)

Next ==
  \/ \E s \in Stages, m \in Muxes \cup {None} : set_amux(s, m)
  \/ \E s \in Stages : test_single_event(s)
  \/ \E n \in 1..NumEvents, gap \in 0..MaxDelay : test_multiple_events(n, gap)
  \/ run
  \/ Step

Spec == Init /\ [][Next]_vars

\* env.run() keeps stepping while an event is scheduled, and the test goes
\* on to call it.
FairSpec == Spec /\ WF_vars(run) /\ WF_vars(Step)

Quiescent == phase = "run" /\ ~crashed /\ queue = <<>>


\* ---- the two-stage pipeline ----

\* the call on tail that the chaining routing stage makes for call x on ring
Chained(x) == <<"tail", x[2]>>

\* entry_point of the chaining routing stage starts: it runs tail's buffer_in
\* for the event it was given and waits for it.
chain_entry_point(x) ==
  /\ Pops("init", "entry_point", x)
  /\ muxArg[x] = Chain
  /\ now' = Head1.t
  /\ pcEntry' = [pcEntry EXCEPT ![x] = "chained"]
  /\ pcBuf' = [pcBuf EXCEPT ![Chained(x)] = "init"]
  /\ startAt' = [startAt EXCEPT ![Chained(x)] = Head1.t]
  /\ queue' = Process(Tail(queue), Head1.t, "buffer_in", Chained(x))
  /\ UNCHANGED <<stageVars, test_events, waveVars, crashed, phase, driverVars, idx,
                 pcUnit, pcRem, muxArg, cellAt, handoffAt, routedAt, endAt,
                 dropped, calls>>

\* entry_point of the chaining routing stage resumes when tail's buffer_in
\* has ended, and ends with its outcome.
chain_entry_point_done(x) ==
  /\ Pops("end", "buffer_in", Chained(x))
  /\ pcEntry[x] = "chained"
  /\ now' = Head1.t
  /\ pcEntry' = [pcEntry EXCEPT ![x] = IF Head1.ok THEN "done" ELSE "failed"]
  /\ routedAt' = [routedAt EXCEPT ![x] = Head1.t]
  /\ queue' = Finish(Tail(queue), Head1.t, "entry_point", x, Head1.ok)
  /\ UNCHANGED <<stageVars, test_events, waveVars, crashed, phase, driverVars, pcBuf,
                 idx, pcUnit, pcRem, muxArg, startAt, cellAt, handoffAt, endAt,
                 dropped, calls>>

PipeStep ==
  \/ \E s \in Stages : multiple_event_helper(s)
  \/ process_end("helper", NoTrav)
  \/ \E x \in Stages \X Events :
       \/ process_end("buffer_in", x)
       \/ chain_entry_point(x)
       \/ chain_entry_point_done(x)
  \/ \E x \in Trav :
       \/ buffer_in(x)
       \/ buffer_in_cell_done(x)
       \/ buffer_in_chained(x)
       \/ buffer_in_removed(x)
       \/ sample_and_hold_unit(x)
       \/ sample_and_hold_unit_done(x)
       \/ remove_from_buffer(x)
       \/ remove_from_buffer_routed(x)

\* The helper waits 1 after each spawn, as the test's helper does.
PipeNext ==
  \/ \E s \in Stages : test_single_event(s)
  \/ \E n \in 1..NumEvents : test_multiple_events(n, 1)
  \/ run
  \/ PipeStep

PipeSpec == PipeInit /\ [][PipeNext]_vars


\* ---- the square wave driver (pingpong.py) ----
\* In this part the clock counts half units of virtual time, so that half a
\* period is whole for every period; the stages are not used.

\* two triggers per wave id, and fewer wave ids than the duration
Triggers == 1..(2 * MaxDuration)
\* the processes of the k-th trigger
Trig(k) == <<"wave", k>>
Gen == "square_wave_generator"

\* Faulty variant of LoopEnds: the wave id at the duration is still driven.
LoopEnds_Late(i) == i * period > duration

\* square_wave_generator: if i * period >= duration: break
LoopEnds(i) == i * period >= duration

\* square_wave_generator: env.timeout(period / 2), in half units
HalfPeriod == period

\* ping_pong_integrator: env.timeout(delta), in half units
IntegratorDelay == 2 * delta

\* square_wave_generator, top of `for i in itertools.count()`: leave the loop
\* and return, or make the event of the rising edge and wait half a period.
WaveLoop(i, t, q) ==
  IF LoopEnds(i)
    THEN /\ genPc' = "done"
         /\ queue' = Finish(q, t, Gen, NoTrav, TRUE)
         /\ UNCHANGED <<wave_i, edge>>
    ELSE /\ genPc' = "half"
         /\ wave_i' = i /\ edge' = "Rising"
         /\ queue' = Timeout(q, t, HalfPeriod, Gen, NoTrav)

InitWave ==
  /\ amux = [s \in AllStages |-> None]
  /\ lastSet = [s \in AllStages |-> None]
  /\ sample_length = [s \in AllStages |-> 0]
  /\ buffer_length = [s \in AllStages |-> 0]
  /\ chain_delay = [s \in AllStages |-> 0]
  /\ route_time = [m \in Muxes |-> 0]
  /\ InitRun
  /\ period \in 1..MaxPeriod /\ duration \in 0..MaxDuration
  /\ delta \in 0..MaxDelay
  /\ genPc = "none" /\ wave_i = 0 /\ edge = "Rising"
  /\ triggers = <<>> /\ completedAt = <<>>

\* env.process(square_wave_generator(...)); env.run()
pingpong_main ==
  /\ phase = "setup" /\ genPc = "none"
  /\ genPc' = "init" /\ phase' = "run"
  /\ queue' = Process(queue, now, Gen, NoTrav)
  /\ UNCHANGED <<stageVars, test_events, now, crashed, driverVars, procVars,
                 traceVars, period, duration, delta, wave_i, edge, triggers,
                 completedAt>>

\* square_wave_generator starts.
square_wave_generator ==
  /\ Pops("init", Gen, NoTrav)
  /\ now' = Head1.t
  /\ WaveLoop(0, Head1.t, Tail(queue))
  /\ UNCHANGED <<stageVars, test_events, crashed, phase, driverVars, procVars,
                 traceVars, period, duration, delta, triggers, completedAt>>

\* square_wave_generator resumes after half a period: it spawns the
\* integrator on a message that carries the edge and the event, and waits
\* for that event.
square_wave_generator_spawn ==
  /\ Pops("timeout", Gen, NoTrav)
  /\ now' = Head1.t
  /\ triggers' = Append(triggers, [id |-> wave_i, edge |-> edge, at |-> Head1.t])
  /\ completedAt' = Append(completedAt, -1)
  /\ genPc' = "wait"
  /\ queue' = Process(Tail(queue), Head1.t, "ping_pong_integrator",
                      Trig(Len(triggers) + 1))
  /\ UNCHANGED <<stageVars, test_events, crashed, phase, driverVars, procVars,
                 traceVars, period, duration, delta, wave_i, edge>>

\* square_wave_generator resumes when the event it waits for is processed:
\* after the rising edge it goes on to the falling edge of the same wave,
\* after the falling edge to the next turn of the loop.
square_wave_generator_resumed ==
  /\ genPc = "wait"
  /\ Pops("event", "signal", Trig(Len(triggers)))
  /\ now' = Head1.t
  /\ IF edge = "Rising"
       THEN /\ edge' = "Falling" /\ genPc' = "half"
            /\ queue' = Timeout(Tail(queue), Head1.t, HalfPeriod, Gen, NoTrav)
            /\ UNCHANGED wave_i
       ELSE WaveLoop(wave_i + 1, Head1.t, Tail(queue))
  /\ UNCHANGED <<stageVars, test_events, crashed, phase, driverVars, procVars,
                 traceVars, period, duration, delta, triggers, completedAt>>

\* ping_pong_integrator starts and waits delta.
ping_pong_integrator(k) ==
  /\ Pops("init", "ping_pong_integrator", Trig(k))
  /\ now' = Head1.t
  /\ queue' = Timeout(Tail(queue), Head1.t, IntegratorDelay,
                      "ping_pong_integrator", Trig(k))
  /\ UNCHANGED <<stageVars, test_events, crashed, phase, driverVars, procVars,
                 traceVars, waveVars>>

\* ping_pong_integrator resumes: it spawns ring_buffer_process on the
\* message and returns; it does not complete the message's event itself.
ping_pong_integrator_done(k) ==
  /\ Pops("timeout", "ping_pong_integrator", Trig(k))
  /\ now' = Head1.t
  /\ queue' = Finish(Process(Tail(queue), Head1.t, "ring_buffer_process", Trig(k)),
                     Head1.t, "ping_pong_integrator", Trig(k), TRUE)
  /\ UNCHANGED <<stageVars, test_events, crashed, phase, driverVars, procVars,
                 traceVars, waveVars>>

\* ring_buffer_process (outside this source) is given the message: it
\* completes the message's event, or it never does.
ring_buffer_process(k, completes) ==
  /\ Pops("init", "ring_buffer_process", Trig(k))
  /\ now' = Head1.t
  /\ IF completes
       THEN /\ completedAt' = [completedAt EXCEPT ![k] = Head1.t]
            /\ queue' = Finish(Schedule(Tail(queue),
                                        Item(Head1.t, "event", "signal", Trig(k), TRUE)),
                               Head1.t, "ring_buffer_process", Trig(k), TRUE)
       ELSE /\ queue' = Finish(Tail(queue), Head1.t, "ring_buffer_process",
                               Trig(k), TRUE)
            /\ UNCHANGED completedAt
  /\ UNCHANGED <<stageVars, test_events, crashed, phase, driverVars, procVars,
                 traceVars, period, duration, delta, genPc, wave_i, edge,
                 triggers>>

WaveStep ==
  \/ square_wave_generator
  \/ square_wave_generator_spawn
  \/ square_wave_generator_resumed
  \/ process_end(Gen, NoTrav)
  \/ \E k \in Triggers :
       \/ ping_pong_integrator(k)
       \/ ping_pong_integrator_done(k)
       \/ \E completes \in BOOLEAN : ring_buffer_process(k, completes)
       \/ process_end("ping_pong_integrator", Trig(k))
       \/ process_end("ring_buffer_process", Trig(k))

WaveNext == pingpong_main \/ WaveStep

WaveSpec == InitWave /\ [][WaveNext]_vars


\* ---- the claims ----

\* C * (P + D) of a stage
TraversalTime(s) == buffer_length[s] * (sample_length[s] + chain_delay[s])

Started(x) == startAt[x] # -1
HandedOff(x) == handoffAt[x] # -1
\* remove_from_buffer has run for x (past its first line)
Removed(x) == pcRem[x] \in {"entry", "done", "failed"}
\* no event was handed to a routing stage
NoDownstream == calls = <<>> /\ \A x \in Trav : muxArg[x] = None
SingleRun == helperPc = "none" /\ spawned = 1
HelperRun == helperPc # "none"

\* C1: a single event started at time 0 on a stage with no downstream finishes
\* its traversal at exactly C*(P+D), a value that is never negative, and the
\* run ends at that time.
C1_SingleEventTime ==
  \A s \in Stages :
    LET x == <<s, 1>> IN
    (SingleRun /\ Started(x) /\ NoDownstream) =>
      /\ startAt[x] = 0
      /\ HandedOff(x) => handoffAt[x] = TraversalTime(s) /\ handoffAt[x] >= 0
      /\ now <= TraversalTime(s)
      /\ Quiescent => /\ now = TraversalTime(s)
                      /\ endAt[x] = TraversalTime(s)
                      /\ pcBuf[x] = "done"

C1_Witness ==
  /\ SingleRun /\ NoDownstream /\ Quiescent
  /\ pcBuf[<<"ring", 1>>] = "done"
  /\ buffer_length["ring"] = 2 /\ sample_length["ring"] = 1
  /\ chain_delay["ring"] = 1 /\ now = 4

\* C3: K events on a stage that has no downstream when they are handed off
\* leave downstream_events_processed = K when the run quiesces, whatever the
\* start times.
C3_DropCount ==
  \A s \in Stages :
    (Quiescent /\ NoDownstream) => downstream_events_processed[s] = spawned

\* two events that started together and ended together, both counted
C3_Witness ==
  /\ Quiescent /\ NoDownstream /\ spawned = NumEvents
  /\ downstream_events_processed["ring"] = NumEvents
  /\ endAt[<<"ring", 1>>] = endAt[<<"ring", 2>>]
  /\ startAt[<<"ring", 1>>] = startAt[<<"ring", 2>>]

\* C4: with P = 1, D = 0, C >= 1 and no downstream, the helper that spawns N
\* events one time unit apart leaves the clock at C + (N - 1) when nothing
\* remains scheduled.
C4_HelperFinalTime ==
  \A s \in Stages :
    ( /\ Quiescent /\ HelperRun /\ spacing = 1 /\ NoDownstream
      /\ sample_length[s] = 1 /\ chain_delay[s] = 0 /\ buffer_length[s] >= 1 )
    => now = buffer_length[s] + (num_events - 1)

C4_Witness ==
  /\ Quiescent /\ HelperRun /\ spacing = 1 /\ NoDownstream
  /\ num_events = NumEvents
  /\ sample_length["ring"] = 1 /\ chain_delay["ring"] = 0
  /\ buffer_length["ring"] = 2
  /\ now = 2 + (NumEvents - 1)

\* C5: every event started at t reaches cell i at t + i*(P+D) and completes
\* its traversal at t + C*(P+D), however many events are on the stage: no
\* event waits for another.
C5_NoSerialization ==
  \A x \in Trav :
    LET s == x[1] IN
    /\ \A k \in 1..Len(cellAt[x]) :
         cellAt[x][k] = startAt[x] + (k - 1) * (sample_length[s] + chain_delay[s])
    /\ Len(cellAt[x]) <= buffer_length[s]
    /\ HandedOff(x) => /\ handoffAt[x] = startAt[x] + TraversalTime(s)
                       /\ Len(cellAt[x]) = buffer_length[s]

\* two events hold the second cell of the stage at the same virtual time
C5_Witness ==
  \E x, y \in Trav :
    /\ x # y /\ x[1] = y[1]
    /\ pcUnit[x] = "timeout" /\ pcUnit[y] = "timeout"
    /\ idx[x] = 1 /\ idx[y] = 1
    /\ sample_length[x[1]] >= 1


\* the entry_point calls made for x
CallsOf(x) == SelectSeq(calls, LAMBDA c : c.from = x)
\* entry_point failed for x
Rejected(x) == pcEntry[x] = "failed"
\* some event of the queue resumes a process of x
Scheduled(x) == \E k \in 1..Len(queue) : queue[k].x = x

\* C2: when entry_point fails for an event A, any other event B on the same
\* stage, whenever it started, is as it would be without A: the run goes on,
\* B keeps its own schedule (its cells at start + i*(P+D), its handoff at
\* start + C*(P+D)), its handoff is issued to the mux it found, and B ends
\* with the outcome of its own entry_point call.
C2_FailureIsolation ==
  \A a, b \in Trav :
    (a # b /\ a[1] = b[1] /\ Rejected(a) /\ Started(b)) =>
      LET s == b[1] IN
      /\ ~crashed
      /\ phase = "run" /\ pcBuf[b] \notin {"none", "done", "failed"} => Scheduled(b)
      /\ pcBuf[b] # "failed"
      /\ \A k \in 1..Len(cellAt[b]) :
           cellAt[b][k] = startAt[b] + (k - 1) * (sample_length[s] + chain_delay[s])
      /\ HandedOff(b) => handoffAt[b] = startAt[b] + TraversalTime(s)
      /\ (Removed(b) /\ muxArg[b] # None) =>
           /\ Len(CallsOf(b)) = 1
           /\ CallsOf(b)[1].mux = muxArg[b]
           /\ CallsOf(b)[1].event = b[2]
      /\ (Removed(b) /\ muxArg[b] = None) => b \in dropped
      /\ pcRem[b] = "failed" => Rejected(b)
      /\ pcBuf[b] = "done" =>
           /\ pcRem[b] = (IF Rejected(b) THEN "failed" ELSE "done")
           /\ muxArg[b] # None => pcEntry[b] \in {"done", "failed"}
           /\ endAt[b] >= handoffAt[b]

\* B starts after A was rejected, is handed to the mux and accepted
C2_Witness ==
  \E a, b \in Trav :
    /\ a # b /\ a[1] = b[1] /\ Rejected(a) /\ pcBuf[a] = "done"
    /\ startAt[b] > endAt[a]
    /\ buffer_length[b[1]] = 2
    /\ pcBuf[b] = "done" /\ pcEntry[b] = "done"
    /\ Quiescent

\* nothing is scheduled and every buffer_in that started has returned
AllTerminated == Quiescent /\ \A x \in Trav : pcBuf[x] \in {"none", "done"}

\* C6: for any finite set of events started, the run reaches a state with
\* nothing scheduled and every buffer_in terminated, whichever events are
\* dropped or rejected.
C6_Quiescence == <>AllTerminated

\* a run that ended with one event dropped and one rejected
C6_Witness ==
  /\ AllTerminated /\ spawned = NumEvents
  /\ \E x, y \in Trav : x \in dropped /\ Rejected(y) /\ pcBuf[y] = "done"

\* C7: when entry_point fails for an event the failure goes through
\* remove_from_buffer into buffer_in and stops there: buffer_in ends normally
\* at the virtual time of the rejection, and no failure reaches the engine.
C7_RejectionContained ==
  /\ ~crashed
  /\ \A k \in 1..Len(queue) :
       (queue[k].kind = "end" /\ queue[k].proc \in {"buffer_in", "helper"}) => queue[k].ok
  /\ \A x \in Trav :
       /\ pcBuf[x] # "failed"
       /\ pcRem[x] = "failed" => Rejected(x)
       /\ Rejected(x) =>
            /\ pcBuf[x] \in {"remove", "done"}
            /\ pcRem[x] \in {"entry", "failed"}
            /\ now >= routedAt[x]
            /\ pcBuf[x] = "remove" => now = routedAt[x] /\ Scheduled(x)
            /\ pcBuf[x] = "done" => pcRem[x] = "failed" /\ endAt[x] = routedAt[x]

C7_Witness ==
  \E x \in Trav :
    /\ Rejected(x) /\ pcBuf[x] = "done" /\ pcRem[x] = "failed"
    /\ Quiescent /\ now > routedAt[x]

\* C8: traversal timing does not depend on the downstream reference: any two
\* buffer_in calls on a stage, whatever the mux was when each started and when
\* each was handed off, reach every cell and begin their handoff at the same
\* time after their start, C*(P+D) for the handoff.
C8_TimingIgnoresMux ==
  \A x, y \in Trav :
    (x[1] = y[1] /\ Started(x) /\ Started(y)) =>
      /\ \A k \in 1..Len(cellAt[x]) :
           k <= Len(cellAt[y]) =>
             cellAt[x][k] - startAt[x] = cellAt[y][k] - startAt[y]
      /\ (HandedOff(x) /\ HandedOff(y)) =>
           /\ handoffAt[x] - startAt[x] = handoffAt[y] - startAt[y]
           /\ handoffAt[x] - startAt[x] = TraversalTime(x[1])
           /\ Len(cellAt[x]) = Len(cellAt[y])

\* x was handed off without a mux while y was in flight, and y was handed to
\* a mux set after that: the mux changed during y's traversal
C8_Witness ==
  \E x, y \in Trav :
    /\ x # y /\ x[1] = y[1]
    /\ HandedOff(x) /\ muxArg[x] = None /\ x \in dropped
    /\ startAt[y] <= handoffAt[x]
    /\ HandedOff(y) /\ muxArg[y] \in Muxes /\ handoffAt[y] > handoffAt[x]
    /\ Len(cellAt[y]) = 2 /\ chain_delay[y[1]] = 1

\* C9: with a mux set when the traversal completes, exactly one entry_point
\* call is made for the event, tagged with the stage's buffer_index and
\* carrying that event; after it failed no second call is made, and the event
\* is neither counted nor accepted.
C9_OneCallNoRetry ==
  \A x \in Trav :
    LET cs == CallsOf(x) IN
    /\ Len(cs) <= 1
    /\ (Removed(x) /\ muxArg[x] # None) =>
         /\ Len(cs) = 1
         /\ cs[1].index = buffer_index[x[1]]
         /\ cs[1].event = x[2]
         /\ cs[1].mux = muxArg[x]
    /\ (~Removed(x) \/ muxArg[x] = None) => Len(cs) = 0
    /\ Rejected(x) => /\ Len(cs) = 1
                      /\ x \notin dropped
                      /\ pcEntry[x] # "done"

C9_Witness ==
  \E x \in Trav :
    /\ Rejected(x) /\ Quiescent /\ Len(CallsOf(x)) = 1
    /\ buffer_length[x[1]] > 0

C11_SetOnce ==
  [][\A s \in Stages : amux[s] # None => amux'[s] = amux[s]]_vars

\* C11, amended: the downstream reference is unset after construction and is
\* always the argument of the latest set_amux call on the stage: set_amux
\* assigns unconditionally, also over an assigned reference and while a
\* traversal is in flight, and nothing else changes the reference.
C11_LatestSetWins ==
  \A s \in Stages : amux[s] = lastSet[s]

\* An assigned reference was changed while a traversal was in flight: x was
\* handed to amux1, y was in flight by then and was later handed off with
\* the reference unset again.
C11_Witness ==
  \E x, y \in Trav :
    /\ x[1] = y[1] /\ x # y
    /\ handoffAt[x] # -1 /\ muxArg[x] = "amux1"
    /\ startAt[y] # -1 /\ startAt[y] <= handoffAt[x]
    /\ handoffAt[y] > handoffAt[x] /\ muxArg[y] = None
    /\ amux[x[1]] = None /\ lastSet[x[1]] = None

\* ---- C12 ----

\* the process proc of call x waits on a Timeout that fires at time t
WaitsUntil(proc, x, t) ==
  \E j \in 1..Len(queue) : queue[j] = Item(t, "timeout", proc, x, TRUE)

\* remove_from_buffer(x) spawned and not yet started
HandoffsPending(x) ==
  Cardinality({j \in 1..Len(queue) :
                 queue[j] = Item(handoffAt[x], "init", "remove_from_buffer", x, TRUE)})

C12_State ==
  \A x \in Trav :
    LET s == x[1]
        C == buffer_length[s]
        P == sample_length[s]
        D == chain_delay[s]
        n == Len(cellAt[x])
    IN  /\ n <= C
        /\ n >= 1 => cellAt[x][1] = startAt[x]
        /\ \A k \in 1..(n - 1) : cellAt[x][k + 1] = cellAt[x][k] + P + D
        /\ pcUnit[x] = "init" => idx[x] = n /\ pcBuf[x] = "unit"
        /\ pcUnit[x] = "timeout" =>
              /\ idx[x] = n - 1 /\ pcBuf[x] = "unit"
              /\ WaitsUntil("sample_and_hold_unit", x, cellAt[x][n] + P)
        /\ pcBuf[x] = "chain" =>
              /\ idx[x] = n - 1
              /\ WaitsUntil("buffer_in", x, cellAt[x][n] + P + D)
        /\ HandedOff(x) =>
              /\ n = C /\ idx[x] = C
              /\ handoffAt[x] = IF C = 0 THEN startAt[x] ELSE cellAt[x][C] + P + D
        /\ HandedOff(x) <=> pcRem[x] # "none"
        /\ HandoffsPending(x) = IF pcRem[x] = "init" THEN 1 ELSE 0

C12_Step ==
  \A x \in Trav :
    /\ HandedOff(x) => handoffAt'[x] = handoffAt[x]
    /\ (pcRem'[x] = "init" /\ pcRem[x] # "init") => ~HandedOff(x)
    /\ Len(cellAt'[x]) \in {Len(cellAt[x]), Len(cellAt[x]) + 1}

\* C12: per event, the cells of a stage are processed in index order
\* 0, 1, ..., C-1, each exactly once; each cell takes exactly P and is
\* followed by a chain delay of exactly D, also after the last cell; the
\* handoff (remove_from_buffer) starts only after the chain delay of cell C-1
\* has elapsed, and starts exactly once.
C12_CellOrder == []C12_State /\ [][C12_Step]_vars

\* An event went through both cells of a stage with P = D = 1 and was handed
\* off.
C12_Witness ==
  \E x \in Trav :
    /\ buffer_length[x[1]] = MaxCells /\ MaxCells >= 2
    /\ sample_length[x[1]] = 1 /\ chain_delay[x[1]] = 1
    /\ cellAt[x] = <<startAt[x], startAt[x] + 2>> \o
                   [k \in 1..(MaxCells - 2) |-> startAt[x] + 2 * (k + 1)]
    /\ handoffAt[x] = startAt[x] + 2 * MaxCells
    /\ pcRem[x] = "done"

\* ---- C13 ----

\* buffer_in(x) has terminated
Terminated(x) == pcBuf[x] \in {"done", "failed"}

\* C13: buffer_in waits for the routing outcome: with a downstream routing
\* stage set, the buffer_in process of an event started at t does not
\* terminate before its entry_point call has completed or failed, and it
\* terminates at t + C*(P+D) + R, where R is the virtual time that
\* entry_point call took (R = 0 when no downstream is set).
C13_WaitsForRouting ==
  \A x \in Trav :
    /\ Terminated(x) <=> endAt[x] # -1
    /\ Terminated(x) =>
          IF muxArg[x] = None
            THEN /\ pcEntry[x] = "none"
                 /\ endAt[x] = startAt[x] + TraversalTime(x[1])
            ELSE /\ pcEntry[x] \in {"done", "failed"}
                 /\ routedAt[x] # -1 /\ routedAt[x] <= endAt[x]
                 /\ routedAt[x] - handoffAt[x] = route_time[muxArg[x]]
                 /\ endAt[x] = startAt[x] + TraversalTime(x[1])
                               + (routedAt[x] - handoffAt[x])

\* A buffer_in that started after time 0 on a stage with cells ended after an
\* entry_point call that took one tick; another ended with no downstream.
C13_Witness ==
  \E x, y \in Trav :
    /\ Terminated(x) /\ muxArg[x] # None /\ startAt[x] > 0
    /\ TraversalTime(x[1]) > 0
    /\ routedAt[x] = handoffAt[x] + 1
    /\ endAt[x] = startAt[x] + TraversalTime(x[1]) + 1
    /\ Terminated(y) /\ muxArg[y] = None

\* ---- C14 ----

C14_State ==
  /\ \A s \in Stages :
       downstream_events_processed[s] = Cardinality({x \in dropped : x[1] = s})
  /\ \A x \in Trav :
    HandedOff(x) =>
      IF muxArg[x] = None
        THEN /\ CallsOf(x) = <<>> /\ pcEntry[x] = "none"
             /\ Removed(x) => x \in dropped
        ELSE /\ x \notin dropped
             /\ Removed(x) => /\ Len(CallsOf(x)) = 1
                              /\ CallsOf(x)[1].mux = muxArg[x]

C14_Step ==
  \A x \in Trav :
    /\ (~HandedOff(x) /\ handoffAt'[x] # -1) =>
          /\ muxArg'[x] = amux[x[1]] /\ amux'[x[1]] = amux[x[1]]
          /\ handoffAt'[x] = startAt[x] + TraversalTime(x[1])
    /\ HandedOff(x) => muxArg'[x] = muxArg[x]
    /\ x \in dropped => x \in dropped'

C16_Frame ==
  /\ test_events' = test_events
  /\ UNCHANGED <<buffer_length, sample_length, chain_delay, buffer_index, amux>>
  /\ \A k \in 1..Len(calls') :
       /\ calls'[k].event = calls'[k].from[2]
       /\ k <= Len(calls) => calls'[k] = calls[k]

\* C16: the stage leaves the Event Record unchanged: buffer_in,
\* sample_and_hold_unit and remove_from_buffer never modify the event's
\* identity, metadata or sample index, never complete or fail the event's own
\* completion signal, and pass the very same record to entry_point; the only
\* stage state they change is downstream_events_processed (buffer_length,
\* sample_length, chain_delay, buffer_index, buffer_location and amux are
\* unchanged by them).
C16_EventUntouched == [][Step => C16_Frame]_vars

\* After a run in which one event was dropped and one was handed to
\* entry_point, every record is as it was built, its signal not triggered.
C16_Witness ==
  /\ Quiescent
  /\ dropped # {} /\ calls # <<>>
  /\ \E s \in Stages : downstream_events_processed[s] > 0 /\ buffer_length[s] > 0
  /\ \A e \in Events : test_events[e] = DownstreamEvent(e - 1)

\* ---- C15 ----

Completed(k) == completedAt[k] # -1

\* C17: driver pacing in square_wave_generator: triggers are spawned in the
\* order Rising 0, Falling 0, Rising 1, Falling 1, ... only for wave ids i
\* with i*period < duration; each trigger is spawned exactly period/2 after
\* the generator resumed from the previous trigger, and the generator never
\* spawns the next trigger (nor starts the next half-period wait) before the
\* previous trigger's completion signal has been completed.
C17_DriverPacing ==
  LET n == Len(triggers) IN
  /\ Len(completedAt) = n
  /\ \A k \in 1..n :
       /\ triggers[k].id = (k - 1) \div 2
       /\ triggers[k].edge = IF k % 2 = 1 THEN "Rising" ELSE "Falling"
       /\ triggers[k].id * period < duration
       /\ triggers[k].at = (IF k = 1 THEN 0 ELSE completedAt[k - 1]) + HalfPeriod
       /\ k < n => Completed(k) /\ completedAt[k] >= triggers[k].at
  /\ genPc = "half" =>
       /\ n > 0 => Completed(n)
       /\ WaitsUntil(Gen, NoTrav, (IF n = 0 THEN 0 ELSE completedAt[n]) + HalfPeriod)
  /\ genPc = "wait" => n > 0 /\ ~WaitsUntil(Gen, NoTrav, now + HalfPeriod)
  /\ genPc = "done" => (n > 0 => Completed(n)) /\ n % 2 = 0

\* The generator drove two whole waves, each edge completed one unit after
\* it was spawned, and returned.
C17_Witness ==
  /\ genPc = "done" /\ delta = 1 /\ period = 1
  /\ Len(triggers) = 4
  /\ triggers[4] = [id |-> 1, edge |-> "Falling", at |-> 10]
  /\ completedAt = <<3, 6, 9, 12>>

\* The generator waits on a trigger whose event is never completed; nothing
\* is scheduled any more.
C17_Stuck ==
  /\ genPc = "wait" /\ queue = <<>> /\ ~Completed(Len(triggers))

====
